---- MODULE Spec2Model ----
(***************************************************************************)
(* Model of src/cars_rental.py: the in-memory car inventory                *)
(* (InMemoryCarInventory) with its fleet list and its reservation ledger.  *)
(*                                                                         *)
(* Instants (datetime values) are integers counted in days, so that        *)
(* start_date + timedelta(days=d) is start_date + d.  The wall clock read  *)
(* by datetime.now() is the variable now.                                  *)
(***************************************************************************)
EXTENDS Integers, Sequences

\* ---- bounds of the model ----
MaxCars == 2
MaxCarId == 2
MaxStart == 1
MaxBack == 1
MaxDays == 2
MaxNow == 1

\* ---- input domains ----
CarType == {"sedan", "suv", "van"}
CarIds == 1..MaxCarId
StartDates == 0..MaxStart
DayCounts == (0 - MaxBack)..MaxDays

\* cars, reservations: the fields of InMemoryCarInventory; now: the wall clock;
\* last: the latest call with its arguments and what it returned or raised;
\* after_check: the latest call is a reserve_car issued right after a
\* check_availability of the same arguments that returned True;
\* threads: for each concurrent caller of reserve_car, where it stands in the
\* method and its locals (every caller stays idle under Spec, whose calls run one
\* at a time)
VARIABLES cars, reservations, now, last, after_check, threads

vars == <<cars, reservations, now, last, after_check, threads>>

Threads == {1, 2}

\* ---- data classes ----
Car(car_id, car_type) == [car_id |-> car_id, car_type |-> car_type]

ReservationPeriod(start_date, end_date) ==
    [start_date |-> start_date, end_date |-> end_date]

Reservation(car_id, period) == [car_id |-> car_id, period |-> period]

\* variant: the second comparison reads other.start_date for other.end_date
conflicts_with_typo(self, other) ==
    ~(self.end_date <= other.start_date \/ self.start_date >= other.start_date)

\* variant: strict comparisons, so that touching ranges conflict
conflicts_with_strict(self, other) ==
    ~(self.end_date < other.start_date \/ self.start_date > other.end_date)

conflicts_with(self, other) ==
    ~(self.end_date <= other.start_date \/ self.start_date >= other.end_date)

\* ---- outcomes of a call ----
ReturnNone == [tag |-> "None"]
ReturnBool(b) == [tag |-> "bool", value |-> b]
ReturnReservation(r) == [tag |-> "Reservation", car_id |-> r.car_id, period |-> r.period]
Raise(exc, message) == [tag |-> "raise", exc |-> exc, message |-> message]

InvalidDuration ==
    Raise("ValueError", "The number of reservation days must be greater than zero.")

PastStartDate ==
    Raise("ValueError", "The reservation start date cannot be in the past.")

NoAvailableCars ==
    Raise("NoAvailableCarsError", "No cars available for the requested type and dates")

\* ---- dict helpers ----
EmptyDict == [k \in {} |-> <<>>]

\* dict.get(key, [])
get(d, key) == IF key \in DOMAIN d THEN d[key] ELSE <<>>

\* variant: the list of the key is replaced, not extended
setdefault_overwrite(d, key, item) ==
    [k \in (DOMAIN d) \cup {key} |-> IF k = key THEN <<item>> ELSE d[k]]

\* dict.setdefault(key, []).append(item)
setdefault_append(d, key, item) ==
    [k \in (DOMAIN d) \cup {key} |->
        IF k = key THEN Append(get(d, key), item) ELSE d[k]]


\* ---- InMemoryCarInventory ----
\* variant: only the first reservation of the car is tested
is_car_reserved_first(res, car_id, start_date, days) ==
    LET period == ReservationPeriod(start_date, start_date + days)
        held == get(res, car_id)
    IN  Len(held) > 0 /\ conflicts_with(period, held[1].period)

is_car_reserved(res, car_id, start_date, days) ==
    LET period == ReservationPeriod(start_date, start_date + days)
        held == get(res, car_id)
    IN  \E i \in 1..Len(held) : conflicts_with(period, held[i].period)

\* variant: the category filter is missing
check_availability_any_type(cs, res, car_type, start_date, days) ==
    LET free(car) == ~is_car_reserved(res, car.car_id, start_date, days)
        available_cars == SelectSeq(cs, free)
    IN  Len(available_cars) > 0

\* the value check_availability returns
check_availability_impl(cs, res, car_type, start_date, days) ==
    LET free(car) == car.car_type = car_type
                     /\ ~is_car_reserved(res, car.car_id, start_date, days)
        available_cars == SelectSeq(cs, free)
    IN  Len(available_cars) > 0

\* variant: days < 0 for days <= 0
reserve_car_strict_days(cs, res, clock, car_type, start_date, days) ==
    IF days < 0
    THEN [ret |-> InvalidDuration, reservations |-> res]
    ELSE IF start_date < clock
    THEN [ret |-> PastStartDate, reservations |-> res]
    ELSE LET free(car) == car.car_type = car_type
                          /\ ~is_car_reserved(res, car.car_id, start_date, days)
             available_cars == SelectSeq(cs, free)
         IN  IF Len(available_cars) > 0
             THEN LET car_to_reserve == available_cars[1]
                      period == ReservationPeriod(start_date, start_date + days)
                      reservation == Reservation(car_to_reserve.car_id, period)
                  IN  [ret |-> ReturnReservation(reservation),
                       reservations |->
                           setdefault_append(res, car_to_reserve.car_id, reservation)]
             ELSE [ret |-> NoAvailableCars, reservations |-> res]

\* variant: start_date <= now for start_date < now
reserve_car_late_past(cs, res, clock, car_type, start_date, days) ==
    IF days <= 0
    THEN [ret |-> InvalidDuration, reservations |-> res]
    ELSE IF start_date <= clock
    THEN [ret |-> PastStartDate, reservations |-> res]
    ELSE LET free(car) == car.car_type = car_type
                          /\ ~is_car_reserved(res, car.car_id, start_date, days)
             available_cars == SelectSeq(cs, free)
         IN  IF Len(available_cars) > 0
             THEN LET car_to_reserve == available_cars[1]
                      period == ReservationPeriod(start_date, start_date + days)
                      reservation == Reservation(car_to_reserve.car_id, period)
                  IN  [ret |-> ReturnReservation(reservation),
                       reservations |->
                           setdefault_append(res, car_to_reserve.car_id, reservation)]
             ELSE [ret |-> NoAvailableCars, reservations |-> res]

\* variant: the start date is validated after the scan and the commit
reserve_car_commit_first(cs, res, clock, car_type, start_date, days) ==
    IF days <= 0
    THEN [ret |-> InvalidDuration, reservations |-> res]
    ELSE LET free(car) == car.car_type = car_type
                          /\ ~is_car_reserved(res, car.car_id, start_date, days)
             available_cars == SelectSeq(cs, free)
         IN  IF Len(available_cars) > 0
             THEN LET car_to_reserve == available_cars[1]
                      period == ReservationPeriod(start_date, start_date + days)
                      reservation == Reservation(car_to_reserve.car_id, period)
                      committed == setdefault_append(res, car_to_reserve.car_id,
                                                     reservation)
                  IN  IF start_date < clock
                      THEN [ret |-> PastStartDate, reservations |-> committed]
                      ELSE [ret |-> ReturnReservation(reservation),
                            reservations |-> committed]
             ELSE [ret |-> NoAvailableCars, reservations |-> res]

\* variant: the last available car is taken, not the first
reserve_car_last_fit(cs, res, clock, car_type, start_date, days) ==
    IF days <= 0
    THEN [ret |-> InvalidDuration, reservations |-> res]
    ELSE IF start_date < clock
    THEN [ret |-> PastStartDate, reservations |-> res]
    ELSE LET free(car) == car.car_type = car_type
                          /\ ~is_car_reserved(res, car.car_id, start_date, days)
             available_cars == SelectSeq(cs, free)
         IN  IF Len(available_cars) > 0
             THEN LET car_to_reserve == available_cars[Len(available_cars)]
                      period == ReservationPeriod(start_date, start_date + days)
                      reservation == Reservation(car_to_reserve.car_id, period)
                  IN  [ret |-> ReturnReservation(reservation),
                       reservations |->
                           setdefault_append(res, car_to_reserve.car_id, reservation)]
             ELSE [ret |-> NoAvailableCars, reservations |-> res]

\* variant: the past-date failure raises the error of the duration failure
reserve_car_same_message(cs, res, clock, car_type, start_date, days) ==
    IF days <= 0
    THEN [ret |-> InvalidDuration, reservations |-> res]
    ELSE IF start_date < clock
    THEN [ret |-> InvalidDuration, reservations |-> res]
    ELSE LET free(car) == car.car_type = car_type
                          /\ ~is_car_reserved(res, car.car_id, start_date, days)
             available_cars == SelectSeq(cs, free)
         IN  IF Len(available_cars) > 0
             THEN LET car_to_reserve == available_cars[1]
                      period == ReservationPeriod(start_date, start_date + days)
                      reservation == Reservation(car_to_reserve.car_id, period)
                  IN  [ret |-> ReturnReservation(reservation),
                       reservations |->
                           setdefault_append(res, car_to_reserve.car_id, reservation)]
             ELSE [ret |-> NoAvailableCars, reservations |-> res]

\* variant: the reservation is filed under the id of the first car of the fleet
reserve_car_wrong_key(cs, res, clock, car_type, start_date, days) ==
    IF days <= 0
    THEN [ret |-> InvalidDuration, reservations |-> res]
    ELSE IF start_date < clock
    THEN [ret |-> PastStartDate, reservations |-> res]
    ELSE LET free(car) == car.car_type = car_type
                          /\ ~is_car_reserved(res, car.car_id, start_date, days)
             available_cars == SelectSeq(cs, free)
         IN  IF Len(available_cars) > 0
             THEN LET car_to_reserve == available_cars[1]
                      period == ReservationPeriod(start_date, start_date + days)
                      reservation == Reservation(car_to_reserve.car_id, period)
                  IN  [ret |-> ReturnReservation(reservation),
                       reservations |->
                           setdefault_append(res, cs[1].car_id, reservation)]
             ELSE [ret |-> NoAvailableCars, reservations |-> res]

\* variant: the start date is validated before the duration
reserve_car_past_first(cs, res, clock, car_type, start_date, days) ==
    IF start_date < clock
    THEN [ret |-> PastStartDate, reservations |-> res]
    ELSE IF days <= 0
    THEN [ret |-> InvalidDuration, reservations |-> res]
    ELSE LET free(car) == car.car_type = car_type
                          /\ ~is_car_reserved(res, car.car_id, start_date, days)
             available_cars == SelectSeq(cs, free)
         IN  IF Len(available_cars) > 0
             THEN LET car_to_reserve == available_cars[1]
                      period == ReservationPeriod(start_date, start_date + days)
                      reservation == Reservation(car_to_reserve.car_id, period)
                  IN  [ret |-> ReturnReservation(reservation),
                       reservations |->
                           setdefault_append(res, car_to_reserve.car_id, reservation)]
             ELSE [ret |-> NoAvailableCars, reservations |-> res]

\* what reserve_car returns or raises (ret) and the ledger it leaves (reservations)
reserve_car_impl(cs, res, clock, car_type, start_date, days) ==
    IF days <= 0
    THEN [ret |-> InvalidDuration, reservations |-> res]
    ELSE IF start_date < clock
    THEN [ret |-> PastStartDate, reservations |-> res]
    ELSE LET free(car) == car.car_type = car_type
                          /\ ~is_car_reserved(res, car.car_id, start_date, days)
             available_cars == SelectSeq(cs, free)
         IN  IF Len(available_cars) > 0
             THEN LET car_to_reserve == available_cars[1]
                      period == ReservationPeriod(start_date, start_date + days)
                      reservation == Reservation(car_to_reserve.car_id, period)
                  IN  [ret |-> ReturnReservation(reservation),
                       reservations |->
                           setdefault_append(res, car_to_reserve.car_id, reservation)]
             ELSE [ret |-> NoAvailableCars, reservations |-> res]

\* InMemoryCarInventory.add_car: the fleet after the call
inventory_add_car(cs, car) == Append(cs, car)

\* ---- CarRentalSystem: the facade the callers use ----
CarRentalSystem_add_car(cs, car_id, car_type) ==
    inventory_add_car(cs, Car(car_id, car_type))

CarRentalSystem_check_availability(cs, res, car_type, start_date, days) ==
    check_availability_impl(cs, res, car_type, start_date, days)

\* variant: the facade reports a missing car as a ValueError
CarRentalSystem_reserve_car_translating(cs, res, clock, car_type, start_date, days) ==
    LET run == reserve_car_impl(cs, res, clock, car_type, start_date, days)
    IN  IF run.ret.tag = "raise" /\ run.ret.exc = "NoAvailableCarsError"
        THEN [ret |-> Raise("ValueError", run.ret.message),
              reservations |-> run.reservations]
        ELSE run

CarRentalSystem_reserve_car(cs, res, clock, car_type, start_date, days) ==
    reserve_car_impl(cs, res, clock, car_type, start_date, days)

Call(op, car_id, car_type, start_date, days, ret) ==
    [op |-> op, car_id |-> car_id, car_type |-> car_type,
     start_date |-> start_date, days |-> days, ret |-> ret]

Init ==
    /\ cars = <<>>
    /\ reservations = EmptyDict
    /\ now = 0
    /\ last = Call("init", 0, "none", 0, 0, ReturnNone)
    /\ after_check = FALSE
    /\ threads = [t \in Threads |-> [pc |-> "idle"]]

\* the wall clock read by datetime.now() advances between calls
Tick ==
    /\ now < MaxNow
    /\ now' = now + 1
    /\ UNCHANGED <<cars, reservations, last, after_check, threads>>

\* variant: the car is inserted at the head of the fleet
add_car_front(car_id, car_type) ==
    /\ Len(cars) < MaxCars
    /\ cars' = <<Car(car_id, car_type)>> \o cars
    /\ last' = Call("add_car", car_id, car_type, 0, 0, ReturnNone)
    /\ after_check' = FALSE
    /\ UNCHANGED <<reservations, now, threads>>

add_car(car_id, car_type) ==
    /\ Len(cars) < MaxCars
    /\ cars' = CarRentalSystem_add_car(cars, car_id, car_type)
    /\ last' = Call("add_car", car_id, car_type, 0, 0, ReturnNone)
    /\ after_check' = FALSE
    /\ UNCHANGED <<reservations, now, threads>>

\* variant: the scan reads the ledger with setdefault, leaving an empty list for
\* every car of the category that had no key
check_availability_setdefault(car_type, start_date, days) ==
    /\ last' = Call("check_availability", 0, car_type, start_date, days,
                    ReturnBool(check_availability_impl(cars, reservations,
                                                       car_type, start_date, days)))
    /\ after_check' = FALSE
    /\ reservations' =
          [k \in (DOMAIN reservations)
                 \cup {cars[i].car_id : i \in {j \in 1..Len(cars) :
                                                  cars[j].car_type = car_type}} |->
              get(reservations, k)]
    /\ UNCHANGED <<cars, now, threads>>

check_availability(car_type, start_date, days) ==
    /\ last' = Call("check_availability", 0, car_type, start_date, days,
                    ReturnBool(CarRentalSystem_check_availability(
                                   cars, reservations, car_type, start_date, days)))
    /\ after_check' = FALSE
    /\ UNCHANGED <<cars, reservations, now, threads>>

reserve_car(car_type, start_date, days) ==
    LET run == CarRentalSystem_reserve_car(cars, reservations, now,
                                           car_type, start_date, days)
    IN  /\ reservations' = run.reservations
        /\ last' = Call("reserve_car", 0, car_type, start_date, days, run.ret)
        /\ after_check' = (last = Call("check_availability", 0, car_type, start_date,
                                        days, ReturnBool(TRUE)))
        /\ UNCHANGED <<cars, now, threads>>

Next ==
    \/ Tick
    \/ \E car_id \in CarIds, car_type \in CarType : add_car(car_id, car_type)
    \/ \E car_type \in CarType, start_date \in StartDates, days \in DayCounts :
          check_availability(car_type, start_date, days)
    \/ \E car_type \in CarType, start_date \in StartDates, days \in DayCounts :
          reserve_car(car_type, start_date, days)

Spec == Init /\ [][Next]_vars

\* ---- reserve_car called by concurrent threads ----
\* The method takes no lock: a thread runs the validation and the scan (lines
\* 70-79), and appends (lines 81-86) in a later step, other threads running in
\* between.

\* lines 70-84: validate, scan, and build the reservation without filing it
reserve_car_scan(t, car_type, start_date, days) ==
    LET run == reserve_car_impl(cars, reservations, now, car_type, start_date, days)
    IN  /\ threads[t].pc = "idle"
        /\ threads' =
              [threads EXCEPT ![t] =
                  IF run.ret.tag = "Reservation"
                  THEN [pc |-> "append",
                        reservation |-> Reservation(run.ret.car_id, run.ret.period)]
                  ELSE [pc |-> "done", ret |-> run.ret]]
        /\ UNCHANGED <<cars, reservations, now, last, after_check>>

\* lines 85-86: file the reservation under its car id and return it
reserve_car_append(t) ==
    /\ threads[t].pc = "append"
    /\ reservations' = setdefault_append(reservations, threads[t].reservation.car_id,
                                         threads[t].reservation)
    /\ threads' = [threads EXCEPT ![t] =
                      [pc |-> "done", ret |-> ReturnReservation(threads[t].reservation)]]
    /\ UNCHANGED <<cars, now, last, after_check>>

NextConcurrent ==
    \/ Tick
    \/ \E car_id \in CarIds, car_type \in CarType : add_car(car_id, car_type)
    \/ \E t \in Threads, car_type \in CarType, start_date \in StartDates,
          days \in DayCounts : reserve_car_scan(t, car_type, start_date, days)
    \/ \E t \in Threads : reserve_car_append(t)

SpecConcurrent == Init /\ [][NextConcurrent]_vars

\* ======================= properties =======================

\* the three failures of reserve_car, as the caller sees them
IsInvalidDuration(ret) ==
    /\ ret.tag = "raise"
    /\ ret.exc = "ValueError"
    /\ ret.message = "The number of reservation days must be greater than zero."

IsPastStartDate(ret) ==
    /\ ret.tag = "raise"
    /\ ret.exc = "ValueError"
    /\ ret.message = "The reservation start date cannot be in the past."

IsNoAvailableCars(ret) ==
    /\ ret.tag = "raise"
    /\ ret.exc = "NoAvailableCarsError"

\* the ledger list of a car id in the current state (empty without a key)
Held(id) == IF id \in DOMAIN reservations THEN reservations[id] ELSE <<>>

\* some reservation stored for id shares an instant with [s, e) (half-open test)
Busy(id, s, e) ==
    \E j \in 1..Len(Held(id)) :
        ~(e <= Held(id)[j].period.start_date \/ s >= Held(id)[j].period.end_date)

\* fleet positions of the cars of category ct that are free for [s, e)
FreeAt(ct, s, e) ==
    {i \in 1..Len(cars) : cars[i].car_type = ct /\ ~Busy(cars[i].car_id, s, e)}

\* a step that is a call of check_availability / reserve_car: only Tick moves the
\* clock, and every call records itself in last
CheckStep == last'.op = "check_availability" /\ now' = now
ReserveStep == last'.op = "reserve_car" /\ now' = now

\* C1: no double-booking: the reservations stored for one car id are pairwise
\* non-conflicting under the half-open test (A.end <= B.start or A.start >= B.end).
C1_NoDoubleBooking ==
    \A id \in DOMAIN reservations :
        \A i, j \in 1..Len(reservations[id]) :
            i # j =>
                LET A == reservations[id][i].period
                    B == reservations[id][j].period
                IN  A.end_date <= B.start_date \/ A.start_date >= B.end_date

\* two reservations stored for one id, which two cars of the fleet share
C1_Witness ==
    \E id \in DOMAIN reservations :
        /\ Len(reservations[id]) >= 2
        /\ \E i, j \in 1..Len(cars) : i # j /\ cars[i].car_id = id /\ cars[j].car_id = id

\* C2: check_availability(category, start, days) returns true exactly when the fleet
\* has a car of the category none of whose stored reservations R satisfies
\* NOT (start+days <= R.start OR start >= R.end), for every input and ledger.
C2_CheckAvailabilityIff ==
    [][CheckStep =>
          LET ct == last'.car_type
              s == last'.start_date
              d == last'.days
          IN  /\ last'.ret.tag = "bool"
              /\ last'.ret.value = (FreeAt(ct, s, s + d) # {})]_vars

\* check_availability answered true for days <= 0 while the only car of the
\* category holds a reservation
C2_Witness ==
    /\ last.op = "check_availability"
    /\ last.days <= 0
    /\ last.ret.value = TRUE
    /\ \E i \in 1..Len(cars) : cars[i].car_type = last.car_type
    /\ \A i \in 1..Len(cars) :
          cars[i].car_type = last.car_type => Len(Held(cars[i].car_id)) > 0

\* C3 as stated: whenever check_availability(cat, s, d) has returned true, the
\* reserve_car(cat, s, d) issued next succeeds and returns a Reservation.
C3_AvailableThenReserveSucceeds ==
    [][(/\ ReserveStep
        /\ last.op = "check_availability"
        /\ last.car_type = last'.car_type
        /\ last.start_date = last'.start_date
        /\ last.days = last'.days
        /\ last.ret.value = TRUE)
       => last'.ret.tag = "Reservation"]_vars

\* C3 amended: whenever check_availability(cat, s, d) has returned true, d >= 1 and
\* s is not before the current moment, the reserve_car(cat, s, d) issued next
\* succeeds and returns a Reservation.
C3_AvailableValidThenReserveSucceeds ==
    [][(/\ ReserveStep
        /\ last.op = "check_availability"
        /\ last.car_type = last'.car_type
        /\ last.start_date = last'.start_date
        /\ last.days = last'.days
        /\ last.ret.value = TRUE
        /\ last'.days >= 1
        /\ last'.start_date >= now)
       => last'.ret.tag = "Reservation"]_vars

\* a reserve_car issued right after a true check_availability of the same
\* arguments committed a reservation to a car that already held one
C3_Witness ==
    /\ after_check
    /\ last.op = "reserve_car"
    /\ last.ret.tag = "Reservation"
    /\ Len(Held(last.ret.car_id)) >= 2

\* C4: a successful reserve_car(category, start, days) returns a Reservation with
\* period exactly [start, start+days), end > start, appends it as the last entry of
\* the list of the returned car_id and changes neither the fleet nor any other list.
C4_ReserveFrame ==
    [][(ReserveStep /\ last'.ret.tag = "Reservation") =>
              LET id == last'.ret.car_id
                  s == last'.start_date
                  d == last'.days
                  r == [car_id |-> id,
                        period |-> [start_date |-> s, end_date |-> s + d]]
              IN  /\ last'.ret.period = r.period
                  /\ r.period.end_date > r.period.start_date
                  /\ DOMAIN reservations' = DOMAIN reservations \cup {id}
                  /\ Len(reservations'[id]) = Len(Held(id)) + 1
                  /\ reservations'[id][Len(reservations'[id])] = r
                  /\ \A j \in 1..Len(Held(id)) : reservations'[id][j] = Held(id)[j]
                  /\ \A k \in DOMAIN reservations \ {id} :
                        reservations'[k] = reservations[k]
                  /\ cars' = cars]_vars

\* the last call appended a second entry to a car's list while another car id
\* holds a list of its own
C4_Witness ==
    /\ last.op = "reserve_car"
    /\ last.ret.tag = "Reservation"
    /\ Len(Held(last.ret.car_id)) = 2
    /\ Held(last.ret.car_id)[2].period = last.ret.period
    /\ \E k \in DOMAIN reservations : k # last.ret.car_id /\ Len(reservations[k]) > 0

\* C5: reserve_car is all-or-nothing: when it fails, the fleet and the whole
\* ledger are what they were before the call.
C5_FailureChangesNothing ==
    [][(ReserveStep /\ last'.ret.tag = "raise") =>
          (cars' = cars /\ reservations' = reservations)]_vars

\* a request failed for want of a free car while the ledger holds reservations
\* under two car ids
C5_Witness ==
    /\ last.op = "reserve_car"
    /\ last.ret.tag = "raise"
    /\ last.ret.exc = "NoAvailableCarsError"
    /\ \E k1, k2 \in DOMAIN reservations : k1 # k2

\* C6: exhaustion: a valid reserve_car (days >= 1, start not in the past) fails with
\* NoAvailableCars exactly when no car of the category is free for the range; so
\* after a successful reserve_car(cat, s, d) that left no car of cat free for
\* [s, s+d), the next reserve_car(cat, s, d) fails with NoAvailableCars.
C6_Exhaustion ==
    [][(ReserveStep /\ last'.days >= 1 /\ last'.start_date >= now) =>
          LET ct == last'.car_type
              s == last'.start_date
              d == last'.days
          IN  /\ IsNoAvailableCars(last'.ret) <=> (FreeAt(ct, s, s + d) = {})
              /\ (/\ last.op = "reserve_car"
                  /\ last.ret.tag = "Reservation"
                  /\ last.car_type = ct /\ last.start_date = s /\ last.days = d
                  /\ FreeAt(ct, s, s + d) = {})
                 => IsNoAvailableCars(last'.ret)]_vars

\* a request was refused while both cars of its category, of distinct ids, are
\* booked, one of them for exactly the requested range
C6_Witness ==
    /\ last.op = "reserve_car"
    /\ IsNoAvailableCars(last.ret)
    /\ \E i, j \in 1..Len(cars) :
          /\ cars[i].car_id # cars[j].car_id
          /\ cars[i].car_type = last.car_type
          /\ cars[j].car_type = last.car_type
          /\ Len(Held(cars[j].car_id)) > 0
          /\ \E k \in 1..Len(Held(cars[i].car_id)) :
                Held(cars[i].car_id)[k].period =
                    [start_date |-> last.start_date,
                     end_date |-> last.start_date + last.days]

\* C7: reserve_car with days <= 0 fails with InvalidDuration whatever the category,
\* the start and the ledger, and commits nothing; with days >= 1 it never fails
\* with InvalidDuration.
C7_DurationValidation ==
    [][ReserveStep =>
          /\ last'.days <= 0 =>
                /\ IsInvalidDuration(last'.ret)
                /\ cars' = cars
                /\ reservations' = reservations
          /\ last'.days >= 1 => ~IsInvalidDuration(last'.ret)]_vars

\* a request of days <= 0 was refused although its start is not in the past and a
\* car of the category holds no reservation at all
C7_Witness ==
    /\ last.op = "reserve_car"
    /\ last.days <= 0
    /\ IsInvalidDuration(last.ret)
    /\ last.start_date >= now
    /\ \E i \in 1..Len(cars) :
          cars[i].car_type = last.car_type /\ Len(Held(cars[i].car_id)) = 0

\* C8: reserve_car with days >= 1 and start strictly before the current moment fails
\* with PastStartDate and commits nothing, even when a car is free; a start equal to
\* or after the current moment is never rejected as past.
C8_PastDateValidation ==
    [][ReserveStep =>
          /\ (last'.days >= 1 /\ last'.start_date < now) =>
                /\ IsPastStartDate(last'.ret)
                /\ cars' = cars
                /\ reservations' = reservations
          /\ last'.start_date >= now => ~IsPastStartDate(last'.ret)]_vars

\* a request of days >= 1 starting before the current moment was refused although
\* a car of the category is free for its range
C8_Witness ==
    /\ last.op = "reserve_car"
    /\ last.days >= 1
    /\ last.start_date < now
    /\ IsPastStartDate(last.ret)
    /\ FreeAt(last.car_type, last.start_date, last.start_date + last.days) # {}

\* C9: boundary adjacency: when the only car of a category holds a reservation
\* [a, b), a valid reserve_car for a range that shares an instant with [a, b) is
\* refused, and one for a range starting exactly at b or ending exactly at a (and
\* clear of the car's other reservations) succeeds and binds that same car.
C9_BoundaryAdjacency ==
    [][(ReserveStep /\ last'.days >= 1 /\ last'.start_date >= now) =>
          LET ct == last'.car_type
              s == last'.start_date
              e == last'.start_date + last'.days
              only == {i \in 1..Len(cars) : cars[i].car_type = ct}
          IN  \A i \in only :
                only = {i} =>
                    LET held == Held(cars[i].car_id)
                        A(j) == held[j].period.start_date
                        B(j) == held[j].period.end_date
                        shares(j) == s < B(j) /\ A(j) < e
                    IN  \A j \in 1..Len(held) :
                          /\ shares(j) => IsNoAvailableCars(last'.ret)
                          /\ (/\ s = B(j) \/ e = A(j)
                              /\ \A k \in 1..Len(held) : k # j => ~shares(k))
                             => /\ last'.ret.tag = "Reservation"
                                /\ last'.ret.car_id = cars[i].car_id]_vars

\* two cars, each the only one of its category: one was booked again from the very
\* end of its first reservation, the other up to the very start of its first one
C9_Witness ==
    \E i1, i2 \in 1..Len(cars) :
        /\ cars[i1].car_type # cars[i2].car_type
        /\ cars[i1].car_id # cars[i2].car_id
        /\ Len(Held(cars[i1].car_id)) = 2
        /\ Len(Held(cars[i2].car_id)) = 2
        /\ Held(cars[i1].car_id)[2].period.start_date
              = Held(cars[i1].car_id)[1].period.end_date
        /\ Held(cars[i2].car_id)[2].period.end_date
              = Held(cars[i2].car_id)[1].period.start_date

\* C10: first-fit: a successful reserve_car binds the car earliest in fleet order
\* among the cars of the requested category with no stored reservation conflicting
\* with the range; the bound id is the id of a car of the requested category.
C10_FirstFit ==
    [][(ReserveStep /\ last'.ret.tag = "Reservation") =>
          LET ct == last'.car_type
              s == last'.start_date
              e == last'.start_date + last'.days
              free == FreeAt(ct, s, e)
          IN  /\ free # {}
              /\ \E i \in free :
                    /\ \A j \in free : i <= j
                    /\ last'.ret.car_id = cars[i].car_id
              /\ \E i \in 1..Len(cars) :
                    cars[i].car_id = last'.ret.car_id /\ cars[i].car_type = ct]_vars

\* the second car of the fleet was bound because the first, of the same category
\* and of another id, is booked over the requested range; the second was free of
\* reservations before
C10_Witness ==
    /\ last.op = "reserve_car"
    /\ last.ret.tag = "Reservation"
    /\ Len(cars) = 2
    /\ cars[1].car_type = last.car_type
    /\ cars[2].car_type = last.car_type
    /\ cars[1].car_id # cars[2].car_id
    /\ last.ret.car_id = cars[2].car_id
    /\ Len(Held(cars[2].car_id)) = 1
    /\ Busy(cars[1].car_id, last.start_date, last.start_date + last.days)

\* the ledger list of a car id after the step
HeldNext(id) == IF id \in DOMAIN reservations' THEN reservations'[id] ELSE <<>>

\* fleet positions of the cars of category ct free for [s, e) after the step
FreeAtNext(ct, s, e) ==
    {i \in 1..Len(cars') :
        /\ cars'[i].car_type = ct
        /\ \A j \in 1..Len(HeldNext(cars'[i].car_id)) :
              \/ e <= HeldNext(cars'[i].car_id)[j].period.start_date
              \/ s >= HeldNext(cars'[i].car_id)[j].period.end_date}

\* C11: with k cars of a category free for a range, of pairwise distinct ids, a valid
\* reserve_car for that category and range succeeds when k >= 1, binds one of the
\* free cars and leaves exactly the k-1 others free for the range, and fails with
\* NoAvailableCars when k = 0; two such calls in a row bind two different car ids.
\* So k calls in a row bind k distinct ids and the (k+1)-th fails.
C11_SequentialDistinctCars ==
    [][(ReserveStep /\ last'.days >= 1 /\ last'.start_date >= now) =>
          LET ct == last'.car_type
              s == last'.start_date
              e == last'.start_date + last'.days
              free == FreeAt(ct, s, e)
          IN  (\A i, j \in free : i # j => cars[i].car_id # cars[j].car_id) =>
                /\ free = {} => IsNoAvailableCars(last'.ret)
                /\ free # {} =>
                      /\ last'.ret.tag = "Reservation"
                      /\ \E i \in free :
                            /\ cars[i].car_id = last'.ret.car_id
                            /\ FreeAtNext(ct, s, e) = free \ {i}
                /\ (/\ last.op = "reserve_car"
                    /\ last.ret.tag = "Reservation"
                    /\ last.car_type = ct
                    /\ last.start_date = s
                    /\ last.days = last'.days
                    /\ last'.ret.tag = "Reservation")
                   => last'.ret.car_id # last.ret.car_id]_vars

\* two cars of one category and of distinct ids each hold exactly the requested
\* range and nothing else, and the third request for it was refused
C11_Witness ==
    /\ last.op = "reserve_car"
    /\ IsNoAvailableCars(last.ret)
    /\ Len(cars) = 2
    /\ cars[1].car_type = last.car_type
    /\ cars[2].car_type = last.car_type
    /\ cars[1].car_id # cars[2].car_id
    /\ \A i \in 1..2 :
          Held(cars[i].car_id) =
              <<[car_id |-> cars[i].car_id,
                 period |-> [start_date |-> last.start_date,
                             end_date |-> last.start_date + last.days]]>>

\* why a failing reserve_car call fails, from its arguments and the clock: for the
\* call of this step, and for the previous call where the current clock still tells
\* (a start not in the past now was not in the past then)
ThisCause ==
    IF last'.days <= 0 THEN "duration"
    ELSE IF last'.start_date < now THEN "past" ELSE "none_free"

PrevCause ==
    IF last.days <= 0 THEN "duration"
    ELSE IF last.start_date >= now THEN "none_free" ELSE "unknown"

TwoFailures ==
    /\ ReserveStep
    /\ last.op = "reserve_car"
    /\ last.ret.tag = "raise"
    /\ last'.ret.tag = "raise"
    /\ PrevCause # "unknown"
    /\ PrevCause # ThisCause

\* C12 as stated: the three failures of reserve_car reach the caller as three
\* mutually different error kinds: two failures of different causes never raise the
\* same exception type.
C12_ThreeErrorKinds ==
    [][TwoFailures => last.ret.exc # last'.ret.exc]_vars

\* C12 amended: NoAvailableCars reaches the caller as NoAvailableCarsError, a kind of
\* its own; InvalidDuration and PastStartDate both reach it as ValueError, the same
\* kind, and differ from each other only by their message.
C12_TwoKindsAndMessages ==
    [][(ReserveStep /\ last'.ret.tag = "raise") =>
          /\ ThisCause = "none_free" => last'.ret.exc = "NoAvailableCarsError"
          /\ ThisCause # "none_free" => last'.ret.exc = "ValueError"
          /\ TwoFailures =>
                /\ last.ret.message # last'.ret.message
                /\ (last.ret.exc # last'.ret.exc)
                      <=> (PrevCause = "none_free" \/ ThisCause = "none_free")]_vars

\* a request of days >= 1 for a category without any car failed for its past
\* start, with a ValueError
C12_Witness ==
    /\ last.op = "reserve_car"
    /\ last.days >= 1
    /\ last.start_date < now
    /\ last.ret.tag = "raise"
    /\ last.ret.exc = "ValueError"
    /\ \A i \in 1..Len(cars) : cars[i].car_type # last.car_type

\* C13: check_availability is a pure query that never fails: for every input, days
\* <= 0 and past starts included, it returns a boolean and leaves the fleet and the
\* ledger as they were: no key is added and no list is modified.
C13_CheckAvailabilityPure ==
    [][CheckStep =>
          /\ last'.ret.tag = "bool"
          /\ last'.ret.value \in BOOLEAN
          /\ cars' = cars
          /\ DOMAIN reservations' = DOMAIN reservations
          /\ \A k \in DOMAIN reservations : reservations'[k] = reservations[k]]_vars

\* a query of days <= 0 and of a past start was answered while the ledger holds
\* reservations and a car of the queried category has no key in it
C13_Witness ==
    /\ last.op = "check_availability"
    /\ last.days <= 0
    /\ last.start_date < now
    /\ last.ret.tag = "bool"
    /\ DOMAIN reservations # {}
    /\ \E i \in 1..Len(cars) :
          cars[i].car_type = last.car_type /\ cars[i].car_id \notin DOMAIN reservations

\* a step that is a call of add_car
AddStep == last'.op = "add_car" /\ now' = now

\* what add_car does to the fleet and the ledger, for both forms of C14
AddCarFrame ==
    AddStep =>
        /\ last'.ret.tag = "None"
        /\ cars' = Append(cars, [car_id |-> last'.car_id, car_type |-> last'.car_type])
        /\ reservations' = reservations

\* C14 as stated: add_car(id, category) never fails, appends exactly one Car at the
\* end of the fleet, leaves the ledger unchanged, and right after it the new car is
\* conflict-free for every range, so that check_availability for its category
\* returns true for every range.
C14_AddCarAlwaysFree ==
    [][/\ AddCarFrame
       /\ AddStep =>
             \A s \in StartDates, d \in DayCounts :
                 Len(cars') \in FreeAtNext(last'.car_type, s, s + d)
       /\ (CheckStep /\ last.op = "add_car" /\ last'.car_type = last.car_type)
             => last'.ret.value = TRUE]_vars

\* C14 amended: add_car(id, category) never fails, appends exactly one Car at the end
\* of the fleet and leaves the ledger unchanged; the new car has the reservations
\* already stored under its id, so when none is stored under that id, right after
\* add_car the new car is conflict-free for every range and check_availability for
\* its category returns true for every range.
C14_AddCarFreeUnlessIdBooked ==
    [][/\ AddCarFrame
       /\ (AddStep /\ Held(last'.car_id) = <<>>) =>
             \A s \in StartDates, d \in DayCounts :
                 Len(cars') \in FreeAtNext(last'.car_type, s, s + d)
       /\ (/\ CheckStep
           /\ last.op = "add_car"
           /\ last'.car_type = last.car_type
           /\ Held(last.car_id) = <<>>)
             => last'.ret.value = TRUE]_vars

\* a second car was added, of an id without reservations, next to a booked car of
\* the same category
C14_Witness ==
    /\ last.op = "add_car"
    /\ Len(cars) = 2
    /\ cars[2] = [car_id |-> last.car_id, car_type |-> last.car_type]
    /\ cars[1].car_type = last.car_type
    /\ Held(last.car_id) = <<>>
    /\ Len(Held(cars[1].car_id)) > 0

\* every stored reservation lies under the key equal to its car_id, and that id is
\* the id of a car of the fleet
LedgerRefersToFleet ==
    \A k \in DOMAIN reservations :
        \A j \in 1..Len(reservations[k]) :
            /\ reservations[k][j].car_id = k
            /\ \E i \in 1..Len(cars) : cars[i].car_id = k

\* C15: referential integrity: in every reachable state every reservation of the
\* ledger is stored under the key equal to its own car_id, which is the id of a car
\* of the fleet; a car of that id has the category requested by the reserve_car call
\* that created the reservation, and no step changes or removes a car of the fleet.
C15_ReferentialIntegrity ==
    /\ []LedgerRefersToFleet
    /\ [][/\ (ReserveStep /\ last'.ret.tag = "Reservation") =>
                \E i \in 1..Len(cars) :
                    /\ cars[i].car_id = last'.ret.car_id
                    /\ cars[i].car_type = last'.car_type
                    /\ cars'[i] = cars[i]
          /\ Len(cars') >= Len(cars)
          /\ \A i \in 1..Len(cars) : cars'[i] = cars[i]]_vars

\* reservations are stored under two ids, for two cars of different categories, the
\* second car of the fleet having just been booked
C15_Witness ==
    /\ last.op = "reserve_car"
    /\ last.ret.tag = "Reservation"
    /\ Len(cars) = 2
    /\ cars[1].car_id # cars[2].car_id
    /\ cars[1].car_type # cars[2].car_type
    /\ last.ret.car_id = cars[2].car_id
    /\ Len(Held(cars[1].car_id)) > 0
    /\ Len(Held(cars[2].car_id)) > 0

\* C16: when two reserve_car calls run concurrently on one inventory, the scan and
\* the append of each call are indivisible with respect to the other call, so that
\* no interleaving reaches a state where one car holds two reservations that
\* overlap in time.
C16_ConcurrentNoDoubleBooking ==
    \A id \in DOMAIN reservations :
        \A i, j \in 1..Len(reservations[id]) :
            i < j =>
                ~(/\ reservations[id][i].period.start_date
                        < reservations[id][j].period.end_date
                  /\ reservations[id][j].period.start_date
                        < reservations[id][i].period.end_date)

\* C17: facade equivalence: every call made through CarRentalSystem returns or
\* raises what the InMemoryCarInventory operation returns or raises for the same
\* inputs, and leaves the inventory in the state that operation leaves: the facade
\* adds no validation, transformation or error translation.
C17_FacadeEquivalence ==
    [][/\ AddStep =>
             /\ last'.ret = ReturnNone
             /\ cars' = inventory_add_car(
                            cars, [car_id |-> last'.car_id, car_type |-> last'.car_type])
             /\ reservations' = reservations
       /\ CheckStep =>
             /\ last'.ret = ReturnBool(check_availability_impl(
                                cars, reservations,
                                last'.car_type, last'.start_date, last'.days))
             /\ cars' = cars
             /\ reservations' = reservations
       /\ ReserveStep =>
             LET direct == reserve_car_impl(cars, reservations, now, last'.car_type,
                                            last'.start_date, last'.days)
             IN  /\ last'.ret = direct.ret
                 /\ reservations' = direct.reservations
                 /\ cars' = cars]_vars

\* a call through the facade raised the inventory's NoAvailableCarsError, message
\* included, the only car of the fleet holding two reservations
C17_Witness ==
    /\ last.op = "reserve_car"
    /\ last.ret.tag = "raise"
    /\ last.ret.exc = "NoAvailableCarsError"
    /\ last.ret.message = "No cars available for the requested type and dates"
    /\ Len(cars) = 1
    /\ Len(Held(cars[1].car_id)) = 2

\* C18: the ledger only grows: across every step a car of the fleet stays at its
\* position with its id and category, and a committed reservation stays in its
\* car's list at its position with its car_id and period; so, as long as no car is
\* added, a range for which no car of a category is free (check_availability
\* false) stays without a free car in every later state.
C18_LedgerOnlyGrows ==
    [][/\ Len(cars') >= Len(cars)
       /\ \A i \in 1..Len(cars) : cars'[i] = cars[i]
       /\ \A k \in DOMAIN reservations :
             /\ k \in DOMAIN reservations'
             /\ Len(reservations'[k]) >= Len(reservations[k])
             /\ \A j \in 1..Len(reservations[k]) :
                   reservations'[k][j] = reservations[k][j]
       /\ (cars' = cars /\ reservations' # reservations) =>
             \A ct \in CarType, s \in StartDates, d \in DayCounts :
                 FreeAt(ct, s, s + d) = {} => FreeAtNext(ct, s, s + d) = {}
       /\ (/\ CheckStep
           /\ last.op = "check_availability"
           /\ last.car_type = last'.car_type
           /\ last.start_date = last'.start_date
           /\ last.days = last'.days
           /\ cars' = cars
           /\ last.ret.value = FALSE)
          => last'.ret.value = FALSE]_vars

\* check_availability answered false for a fleet of two cars, one of which holds
\* two reservations and the other one
C18_Witness ==
    /\ last.op = "check_availability"
    /\ last.ret.value = FALSE
    /\ Len(cars) = 2
    /\ \E i, j \in 1..2 :
          /\ Len(Held(cars[i].car_id)) = 2
          /\ Len(Held(cars[j].car_id)) = 1

\* the previous call was a successful reserve_car, the range of the call of this
\* step overlaps the period it bound, and every car of the category now asked for
\* (there is one) has the id it bound
AfterBookingSharedId ==
    /\ last.op = "reserve_car"
    /\ last.ret.tag = "Reservation"
    /\ last'.start_date < last.ret.period.end_date
    /\ last.ret.period.start_date < last'.start_date + last'.days
    /\ \E i \in 1..Len(cars) : cars[i].car_type = last'.car_type
    /\ \A i \in 1..Len(cars) :
          cars[i].car_type = last'.car_type => cars[i].car_id = last.ret.car_id

\* C19: cars of one id share one reservation list: after a successful reserve_car
\* for a range, every car of the bound id counts as reserved for every range that
\* conflicts with it, so the next valid reserve_car for such a range (the same one
\* included) and for a category whose cars all have that id fails with NoAvailableCars (and check_availability answers false), be
\* it the category just booked or another one.
C19_DuplicateIdsShareLedger ==
    [][/\ (ReserveStep /\ last'.days >= 1 /\ last'.start_date >= now
              /\ AfterBookingSharedId)
          => IsNoAvailableCars(last'.ret)
       /\ (CheckStep /\ AfterBookingSharedId) => last'.ret.value = FALSE]_vars

\* the fleet is two cars of one id and one category, the id holds one reservation,
\* and a request for exactly its range was refused
C19_Witness ==
    /\ last.op = "reserve_car"
    /\ IsNoAvailableCars(last.ret)
    /\ Len(cars) = 2
    /\ cars[1] = cars[2]
    /\ cars[1].car_type = last.car_type
    /\ Len(Held(cars[1].car_id)) = 1
    /\ Held(cars[1].car_id)[1].period.start_date = last.start_date
    /\ Held(cars[1].car_id)[1].period.end_date = last.start_date + last.days

\* C20: reserve_car validates the duration before the start date and both before
\* the fleet scan: days <= 0 with a past start fails with InvalidDuration, and a call
\* of invalid days or of a past start fails with its validation error, never with
\* NoAvailableCars, even when the fleet has no car of the category.
C20_ValidationOrder ==
    [][ReserveStep =>
          /\ last'.days <= 0 =>
                /\ IsInvalidDuration(last'.ret)
                /\ ~IsPastStartDate(last'.ret)
          /\ (last'.days >= 1 /\ last'.start_date < now) => IsPastStartDate(last'.ret)
          /\ (last'.days <= 0 \/ last'.start_date < now) =>
                /\ last'.ret.tag = "raise"
                /\ ~IsNoAvailableCars(last'.ret)]_vars

\* a request of days <= 0 and of a past start, for a category without any car,
\* failed with InvalidDuration
C20_Witness ==
    /\ last.op = "reserve_car"
    /\ last.days <= 0
    /\ last.start_date < now
    /\ IsInvalidDuration(last.ret)
    /\ Len(cars) > 0
    /\ \A i \in 1..Len(cars) : cars[i].car_type # last.car_type

====
